---------------------------- MODULE Spec2Model ----------------------------
(***************************************************************************)
(* Classical protocol logic of the three QKD simulations of the            *)
(* repository: bb84.py (BB84), b92.py (B92) and e91.py (E91).              *)
(*                                                                         *)
(* Each script is a sequential program; its run is a record held in one    *)
(* variable (bb84, b92, e91) whose field pc is the script's position and   *)
(* whose other fields carry the source's names.  The variable call holds   *)
(* one direct call of a library function of the scripts on arbitrary       *)
(* arguments (the functions are importable on their own; the prompts of    *)
(* the scripts only ever pass them validated input).                       *)
(*                                                                         *)
(* Python lists and strings are sequences; Python index i is index i+1.    *)
(* A Python str of bits is a sequence of the one-character strings "0"     *)
(* and "1"; a list of ints is a sequence of 0 and 1.                       *)
(***************************************************************************)
EXTENDS Integers, Sequences, FiniteSets, TLC

VARIABLES bb84, b92, e91, call

vars == <<bb84, b92, e91, call>>

\* The record of a program that is not running in the specification at hand.
Off == [pc |-> "off"]

(***************************************************************************)
(* Bounds of the model.                                                    *)
(***************************************************************************)
\* longest BB84 / B92 transmission
MaxN == 3
\* most Bell pairs entered in an E91 run
MaxPairs == 2
\* longest equal-length argument lists of a direct basis_reconciliation call
MaxLen == 4
\* longest argument list of a direct call with misaligned lengths
MaxMis == 2

Bit == {0, 1}
Char == {"0", "1"}

\* All sequences over S of a length in lo..hi.
SeqsOf(S, lo, hi) == UNION {[1..n -> S] : n \in lo..hi}

(***************************************************************************)
(* Python built-ins used by the scripts.                                   *)
(***************************************************************************)
\* reversed(s)
Reverse(s) == [i \in 1..Len(s) |-> s[Len(s) + 1 - i]]

\* int(c) for c in '01'
CharToInt(c) == IF c = "0" THEN 0 ELSE 1

\* A Python exception is its type and its message (its only argument).
NoException == [type |-> "none", msg |-> ""]
ValueError(msg) == [type |-> "ValueError", msg |-> msg]
IndexError == [type |-> "IndexError", msg |-> "list index out of range"]

(***************************************************************************)
(* The quantum channel: AerSimulator run with shots=1 on a circuit whose   *)
(* qubits never interact.  A circuit is a sequence (one entry per qubit)   *)
(* of gate sequences.  Every qubit starts in |0> and the gates used by the *)
(* scripts (x, h, z) keep it in one of |0>, |1>, |+>, |-> up to a global   *)
(* phase; measuring |0> gives 0, |1> gives 1, |+> or |-> gives either.     *)
(***************************************************************************)
ApplyGate(g, s) ==
    CASE g = "x" -> (CASE s = "0" -> "1" [] s = "1" -> "0" [] OTHER -> s)
      [] g = "h" -> (CASE s = "0" -> "+" [] s = "1" -> "-"
                       [] s = "+" -> "0" [] OTHER -> "1")
      [] g = "z" -> (CASE s = "+" -> "-" [] s = "-" -> "+" [] OTHER -> s)
      [] OTHER -> s

RECURSIVE RunGates(_, _)
RunGates(gates, s) ==
    IF gates = <<>> THEN s
    ELSE RunGates(Tail(gates), ApplyGate(Head(gates), s))

\* The outcomes a computational-basis measurement of one qubit can give.
QubitOutcomes(gates) ==
    LET s == RunGates(gates, "0")
    IN  IF s = "0" THEN {"0"} ELSE IF s = "1" THEN {"1"} ELSE {"0", "1"}

\* Per-qubit outcomes of one shot: element q is the outcome of qubit q-1.
ShotOutcomes(circuit) ==
    {o \in [1..Len(circuit) -> Char] :
        \A q \in 1..Len(circuit) : o[q] \in QubitOutcomes(circuit[q])}

\* Qiskit writes the classical register with bit n-1 first: character 0 of
\* the string is the outcome of qubit n-1.
BitString(outcome) == Reverse(outcome)

\* circuit.compose(other) / gates appended qubit by qubit
Compose(circuit, other) == [q \in 1..Len(circuit) |-> circuit[q] \o other[q]]


(***************************************************************************)
(* basis_reconciliation (bb84.py).  The loop runs over range(len(          *)
(* Sam_bases)); an index past the end of another list raises IndexError at *)
(* the moment that list is read, and the lists built so far are lost.      *)
(***************************************************************************)
RECURSIVE ReconLoop(_, _, _, _, _, _, _)
ReconLoop(k, Sam_bases, Ron_bases, Sam_bits, Ron_results, keySam, keyRon) ==
    IF k > Len(Sam_bases)
    THEN [raised |-> NoException, shared_key_Sam |-> keySam,
          shared_key_Ron |-> keyRon]
    ELSE IF k > Len(Ron_bases)
    THEN [raised |-> IndexError, shared_key_Sam |-> <<>>, shared_key_Ron |-> <<>>]
    ELSE IF Sam_bases[k] = Ron_bases[k]
    THEN IF k > Len(Sam_bits) \/ k > Len(Ron_results)
         THEN [raised |-> IndexError, shared_key_Sam |-> <<>>,
               shared_key_Ron |-> <<>>]
         ELSE ReconLoop(k + 1, Sam_bases, Ron_bases, Sam_bits, Ron_results,
                        Append(keySam, Sam_bits[k]), Append(keyRon, Ron_results[k]))
    ELSE ReconLoop(k + 1, Sam_bases, Ron_bases, Sam_bits, Ron_results,
                   keySam, keyRon)

\* A slip in the comparison: positions with differing bases are kept.
basis_reconciliation_Mut(Sam_bases, Ron_bases, Sam_bits, Ron_results) ==
    ReconLoop(1, Sam_bases, [i \in 1..Len(Ron_bases) |-> 1 - Ron_bases[i]],
              Sam_bits, Ron_results, <<>>, <<>>)

basis_reconciliation(Sam_bases, Ron_bases, Sam_bits, Ron_results) ==
    ReconLoop(1, Sam_bases, Ron_bases, Sam_bits, Ron_results, <<>>, <<>>)

(***************************************************************************)
(* BB84 (bb84.py).                                                         *)
(***************************************************************************)
\* Sam_transmission_multi_qubit: the single circuit it returns.  Any basis
\* other than 0 takes the else branch (diagonal).
Sam_transmission_multi_qubit(Sam_bits, Sam_bases) ==
    [i \in 1..Len(Sam_bits) |->
        IF Sam_bases[i] = 0
        THEN (IF Sam_bits[i] = 1 THEN <<"x">> ELSE <<>>)
        ELSE (IF Sam_bits[i] = 0 THEN <<"h">> ELSE <<"h", "z">>)]

\* The measurement part Ron appends: h only for basis 1, then measure(i, i).
RonCircuit(qc, Ron_bases) ==
    [i \in 1..Len(qc) |->
        qc[i] \o (IF Ron_bases[i] = 1 THEN <<"h", "measure">> ELSE <<"measure">>)]

\* The counts key read in string order, without the reversal.
MeasuredBits_Mut(measured_str) ==
    [i \in 1..Len(measured_str) |-> CharToInt(measured_str[i])]

\* measured_bits = [int(bit) for bit in reversed(measured_str)]
MeasuredBits(measured_str) ==
    [i \in 1..Len(measured_str) |-> CharToInt(Reverse(measured_str)[i])]

\* noise_probability and the values random.random() may return, in percent.
NoiseLevels == {0, 10, 100}
RandomDraws == {5, 50}

\* The noise loop: bit i is flipped when its draw is below the probability.
ApplyNoise(measured_bits, draws, noise_probability) ==
    [i \in 1..Len(measured_bits) |->
        IF draws[i] < noise_probability THEN 1 - measured_bits[i]
        ELSE measured_bits[i]]

BB84Inputs ==
    {[pc |-> "input", Sam_bits |-> sb, Sam_bases |-> sa, Ron_bases |-> ra,
      noise_level |-> p, circuit |-> <<>>, qubit_outcome |-> <<>>,
      measured_str |-> <<>>, Ron_measured_results |-> <<>>,
      shared_key_Sam |-> <<>>, shared_key_Ron |-> <<>>, message |-> "none"] :
        sb \in SeqsOf(Bit, 1, MaxN), sa \in SeqsOf(Bit, 1, MaxN),
        ra \in SeqsOf(Bit, 1, MaxN), p \in NoiseLevels}

InitBB84 ==
    /\ bb84 \in {r \in BB84Inputs : Len(r.Sam_bits) = Len(r.Sam_bases)
                                    /\ Len(r.Sam_bits) = Len(r.Ron_bases)}
    /\ b92 = Off /\ e91 = Off /\ call = Off

SamTransmit ==
    /\ bb84.pc = "input"
    /\ bb84' = [bb84 EXCEPT
                  !.pc = "transmitted",
                  !.circuit = Sam_transmission_multi_qubit(bb84.Sam_bits,
                                                           bb84.Sam_bases)]
    /\ UNCHANGED <<b92, e91, call>>

\* Ron_measurement_multi_qubit_with_noise: one shot of the composed circuit,
\* the reversal of the counts key, then the noise loop.
RonMeasure ==
    /\ bb84.pc = "transmitted"
    /\ LET qc == RonCircuit(bb84.circuit, bb84.Ron_bases)
       IN  \E outcome \in ShotOutcomes(qc) :
           \E draws \in [1..Len(qc) -> RandomDraws] :
              LET measured_str == BitString(outcome)
                  measured_bits == MeasuredBits(measured_str)
              IN  bb84' = [bb84 EXCEPT
                             !.pc = "measured",
                             !.qubit_outcome = outcome,
                             !.measured_str = measured_str,
                             !.Ron_measured_results =
                                 ApplyNoise(measured_bits, draws, bb84.noise_level)]
    /\ UNCHANGED <<b92, e91, call>>

Reconcile ==
    /\ bb84.pc = "measured"
    /\ LET r == basis_reconciliation(bb84.Sam_bases, bb84.Ron_bases,
                                     bb84.Sam_bits, bb84.Ron_measured_results)
       IN  bb84' = [bb84 EXCEPT !.pc = "reconciled",
                                !.shared_key_Sam = r.shared_key_Sam,
                                !.shared_key_Ron = r.shared_key_Ron]
    /\ UNCHANGED <<b92, e91, call>>

\* The final comparison printed by the script.
CompareKeys ==
    /\ bb84.pc = "reconciled"
    /\ bb84' = [bb84 EXCEPT
                  !.pc = "done",
                  !.message = IF bb84.shared_key_Sam = bb84.shared_key_Ron
                              THEN "Shared keys match!"
                              ELSE "Shared keys do NOT match"]
    /\ UNCHANGED <<b92, e91, call>>

NextBB84 == SamTransmit \/ RonMeasure \/ Reconcile \/ CompareKeys

SpecBB84 == InitBB84 /\ [][NextBB84]_vars

(***************************************************************************)
(* B92 (b92.py).                                                           *)
(***************************************************************************)
\* encode_b92_with_alice_basis: the loop over zip(alice_bits, alice_bases)
\* from position k on.  at is the Python index at which the raise statement
\* ran (-1: none ran); qc is the circuit built so far.
RECURSIVE EncodeLoop(_, _, _, _)
EncodeLoop(k, alice_bits, alice_bases, qc) ==
    IF k > Len(alice_bits) \/ k > Len(alice_bases)
    THEN [raised |-> NoException, at |-> -1, qc |-> qc]
    ELSE IF alice_bases[k] = 0
    THEN IF alice_bits[k] = "1"
         THEN [raised |-> ValueError("Inconsistent input: bit '1' with basis '0' in B92"),
               at |-> k - 1, qc |-> qc]
         ELSE EncodeLoop(k + 1, alice_bits, alice_bases, qc)
    ELSE IF alice_bases[k] = 1
    THEN IF alice_bits[k] = "0"
         THEN [raised |-> ValueError("Inconsistent input: bit '0' with basis '1' in B92"),
               at |-> k - 1, qc |-> qc]
         ELSE EncodeLoop(k + 1, alice_bits, alice_bases,
                         [qc EXCEPT ![k] = Append(qc[k], "h")])
    ELSE [raised |-> ValueError("Invalid Alice's basis. Must be 0 or 1 for B92."),
          at |-> k - 1, qc |-> qc]

encode_b92_with_alice_basis(alice_bits, alice_bases) ==
    EncodeLoop(1, alice_bits, alice_bases, [q \in 1..Len(alice_bits) |-> <<>>])

\* The measurement circuit measure_b92 builds before it runs anything: the
\* first basis that is neither 0 nor 1 raises.
MeasCircuit(num_qubits, measurement_bases) ==
    IF \E i \in 1..Len(measurement_bases) : measurement_bases[i] \notin {0, 1}
    THEN [raised |-> ValueError("Invalid measurement basis. Must be 0 or 1."),
          meas |-> <<>>]
    ELSE [raised |-> NoException,
          meas |-> [q \in 1..num_qubits |->
                      IF q > Len(measurement_bases) THEN <<>>
                      ELSE IF measurement_bases[q] = 0 THEN <<"measure">>
                      ELSE <<"h", "measure">>]]

\* The label list built at lines 88-95 (bases are 0 or 1 after the prompt).
SentStates(alice_bases) ==
    [i \in 1..Len(alice_bases) |-> IF alice_bases[i] = 0 THEN "H" ELSE "+"]

\* The conclusive-event test accepting either raw result.
Conclusive_MutAnyResult(alice_state, bob_basis, bob_result) ==
    IF alice_state = "H" /\ bob_basis = 1 THEN "0"
    ELSE IF alice_state = "+" /\ bob_basis = 0 THEN "1"
    ELSE "none"

\* The conclusive-event test with the two key bits exchanged.
Conclusive_MutSwapped(alice_state, bob_basis, bob_result) ==
    IF alice_state = "H" /\ bob_basis = 1 /\ bob_result = "1" THEN "1"
    ELSE IF alice_state = "+" /\ bob_basis = 0 /\ bob_result = "1" THEN "0"
    ELSE "none"

\* The if/elif/else of the sifting loop: the bit Bob appends, or "none".
Conclusive(alice_state, bob_basis, bob_result) ==
    IF alice_state = "H" /\ bob_basis = 1 /\ bob_result = "1" THEN "0"
    ELSE IF alice_state = "+" /\ bob_basis = 0 /\ bob_result = "1" THEN "1"
    ELSE "none"

\* The sifting loop for i in range(num_bits), from position k on; indices
\* are Python's (0-based).
RECURSIVE SiftLoop(_, _, _, _, _, _)
SiftLoop(k, alice_sent_states, bob_measurement_bases, bob_measurements, bob_received_bits, bob_conclusive_indices) ==
    IF k > Len(alice_sent_states)
    THEN [bob_received_bits |-> bob_received_bits,
          bob_conclusive_indices |-> bob_conclusive_indices]
    ELSE LET c == Conclusive(alice_sent_states[k], bob_measurement_bases[k],
                             bob_measurements[k])
         IN  IF c = "none"
             THEN SiftLoop(k + 1, alice_sent_states, bob_measurement_bases,
                           bob_measurements, bob_received_bits,
                           bob_conclusive_indices)
             ELSE SiftLoop(k + 1, alice_sent_states, bob_measurement_bases,
                           bob_measurements, Append(bob_received_bits, c),
                           Append(bob_conclusive_indices, k - 1))

\* The simulator of the source is ideal; "disturbed" stands for a channel
\* (noisy, or tapped) that may return any bit for any qubit.
Channels == {"ideal", "disturbed"}

B92Inputs ==
    {[pc |-> "input", chan |-> ch, alice_bases |-> ab, alice_bits |-> ai,
      bob_measurement_bases |-> bb, alice_sent_states |-> <<>>,
      quantum_channel |-> <<>>, raised |-> NoException, raise_at |-> -1,
      measure_calls |-> 0, qubit_outcome |-> <<>>, bob_measurements |-> <<>>,
      bob_received_bits |-> <<>>, bob_conclusive_indices |-> <<>>,
      final_key_alice |-> <<>>, final_key_bob |-> <<>>, message |-> "none"] :
        ab \in SeqsOf(Bit, 1, MaxN), ai \in SeqsOf(Char, 1, MaxN),
        bb \in SeqsOf(Bit, 1, MaxN), ch \in Channels}

InitB92 ==
    /\ b92 \in {r \in B92Inputs : Len(r.alice_bits) = Len(r.alice_bases)
                                  /\ Len(r.alice_bits) = Len(r.bob_measurement_bases)}
    /\ bb84 = Off /\ e91 = Off /\ call = Off

\* Lines 88-101: the labels, then the encoding inside try/except; on
\* ValueError the function prints the error and returns "", "".
B92Encode ==
    /\ b92.pc = "input"
    /\ LET e == encode_b92_with_alice_basis(b92.alice_bits, b92.alice_bases)
       IN  b92' = [b92 EXCEPT
                     !.pc = IF e.raised = NoException THEN "encoded" ELSE "returned",
                     !.alice_sent_states = SentStates(b92.alice_bases),
                     !.quantum_channel = IF e.raised = NoException THEN e.qc
                                         ELSE <<>>,
                     !.raised = e.raised,
                     !.raise_at = e.at]
    /\ UNCHANGED <<bb84, e91, call>>

\* Line 103, measure_b92: the composed circuit is run once and the memory
\* string is returned as it is.
B92Measure ==
    /\ b92.pc = "encoded"
    /\ LET m == MeasCircuit(Len(b92.alice_bits), b92.bob_measurement_bases)
           combined_circuit == Compose(b92.quantum_channel, m.meas)
       IN  \E outcome \in IF b92.chan = "ideal" THEN ShotOutcomes(combined_circuit)
                          ELSE [1..Len(combined_circuit) -> Char] :
              b92' = [b92 EXCEPT !.pc = "measured",
                                 !.measure_calls = b92.measure_calls + 1,
                                 !.qubit_outcome = outcome,
                                 !.bob_measurements = BitString(outcome)]
    /\ UNCHANGED <<bb84, e91, call>>

\* Lines 105-141: the sifting loop and the two joined keys.
B92Sift ==
    /\ b92.pc = "measured"
    /\ LET s == SiftLoop(1, b92.alice_sent_states, b92.bob_measurement_bases,
                         b92.bob_measurements, <<>>, <<>>)
       IN  b92' = [b92 EXCEPT
                     !.pc = "returned",
                     !.bob_received_bits = s.bob_received_bits,
                     !.bob_conclusive_indices = s.bob_conclusive_indices,
                     !.final_key_alice =
                         [j \in 1..Len(s.bob_conclusive_indices) |->
                             b92.alice_bits[s.bob_conclusive_indices[j] + 1]],
                     !.final_key_bob = s.bob_received_bits]
    /\ UNCHANGED <<bb84, e91, call>>

\* Lines 144-155: the verdict the script prints.
B92Main ==
    /\ b92.pc = "returned"
    /\ b92' = [b92 EXCEPT
                 !.pc = "done",
                 !.message =
                     IF b92.final_key_alice = b92.final_key_bob
                        /\ b92.final_key_alice # <<>>
                     THEN "Key exchange successful"
                     ELSE IF b92.final_key_alice = <<>>
                     THEN "Key exchange failed"
                     ELSE "Potential errors or inconclusive measurements"]
    /\ UNCHANGED <<bb84, e91, call>>

NextB92 == B92Encode \/ B92Measure \/ B92Sift \/ B92Main

SpecB92 == InitB92 /\ [][NextB92]_vars

(***************************************************************************)
(* E91 (e91.py).  A Bell test sample is                                    *)
(* <<<<alice_basis_idx, alice_result>>, <<bob_basis_idx, bob_result>>>>.   *)
(***************************************************************************)
BasisIdx == {0, 1, 2}
Samples == {<<<<a, ar>>, <<b, br>>>> : a \in BasisIdx, ar \in Char,
                                       b \in BasisIdx, br \in Char}

\* The six-way condition of lines 73-78.
CorrelatedPair(alice_basis_idx, bob_basis_idx) ==
    \/ alice_basis_idx = 0 /\ bob_basis_idx = 1
    \/ alice_basis_idx = 0 /\ bob_basis_idx = 2
    \/ alice_basis_idx = 1 /\ bob_basis_idx = 2
    \/ alice_basis_idx = 1 /\ bob_basis_idx = 0
    \/ alice_basis_idx = 2 /\ bob_basis_idx = 0
    \/ alice_basis_idx = 2 /\ bob_basis_idx = 1

\* The list correlations after the loop over bell_data from position k on.
RECURSIVE Correlations(_, _, _)
Correlations(k, bell_data, correlations) ==
    IF k > Len(bell_data) THEN correlations
    ELSE LET a_val == IF bell_data[k][1][2] = "0" THEN 1 ELSE -1
             b_val == IF bell_data[k][2][2] = "0" THEN 1 ELSE -1
         IN  IF CorrelatedPair(bell_data[k][1][1], bell_data[k][2][1])
             THEN Correlations(k + 1, bell_data, Append(correlations, a_val * b_val))
             ELSE Correlations(k + 1, bell_data, correlations)

RECURSIVE SumSeq(_)
SumSeq(s) == IF s = <<>> THEN 0 ELSE Head(s) + SumSeq(Tail(s))

\* evaluate_bell_statistic.  The value np.mean(correlations) * np.sqrt(2) is
\* kept exactly, as the fraction num/den it multiplies sqrt(2) by; the
\* "return 0" of an empty list is 0/1.
evaluate_bell_statistic(bell_data) ==
    LET correlations == Correlations(1, bell_data, <<>>)
    IN  IF correlations # <<>>
        THEN [num |-> SumSeq(correlations), den |-> Len(correlations)]
        ELSE [num |-> 0, den |-> 1]

bell_violation_threshold == 2

\* The comparison against half the threshold.
Violates_Mut(bell_statistic) ==
    4 * 2 * bell_statistic.num * bell_statistic.num
        > bell_violation_threshold * bell_violation_threshold
            * bell_statistic.den * bell_statistic.den

\* abs(bell_statistic) > bell_violation_threshold, that is
\* |num| * sqrt(2) > threshold * den, compared exactly by squaring both
\* (non-negative) sides.
Violates(bell_statistic) ==
    2 * bell_statistic.num * bell_statistic.num
        > bell_violation_threshold * bell_violation_threshold
            * bell_statistic.den * bell_statistic.den

InitE91 ==
    /\ \E num_pairs \in 1..MaxPairs :
          \E d \in [1..num_pairs -> Samples] :
             e91 = [pc |-> "input", bell_test_data |-> d,
                    bell_statistic |-> [num |-> 0, den |-> 1],
                    branch |-> "none", alice_key |-> <<>>, bob_key |-> <<>>,
                    message |-> "none"]
    /\ bb84 = Off /\ b92 = Off /\ call = Off

\* e91_protocol_qiskit_user_input from line 133 on: the statistic, then the
\* decision; the key is len(bell_test_data) // 2 random bits, returned twice.
E91Protocol ==
    /\ e91.pc = "input"
    /\ LET bell_statistic == evaluate_bell_statistic(e91.bell_test_data)
       IN  IF Violates(bell_statistic)
           THEN \E hypothetical_key \in
                    [1..(Len(e91.bell_test_data) \div 2) -> Bit] :
                  e91' = [e91 EXCEPT !.pc = "returned",
                                     !.bell_statistic = bell_statistic,
                                     !.branch = "key generation",
                                     !.alice_key = hypothetical_key,
                                     !.bob_key = hypothetical_key]
           ELSE e91' = [e91 EXCEPT !.pc = "returned",
                                   !.bell_statistic = bell_statistic,
                                   !.branch = "discard",
                                   !.alice_key = <<>>,
                                   !.bob_key = <<>>]
    /\ UNCHANGED <<bb84, b92, call>>

\* Lines 153-161: the message of the script.
E91Main ==
    /\ e91.pc = "returned"
    /\ e91' = [e91 EXCEPT
                 !.pc = "done",
                 !.message = IF e91.alice_key # <<>> /\ e91.bob_key # <<>>
                                /\ Len(e91.alice_key) = Len(e91.bob_key)
                             THEN "successful"
                             ELSE "failed or resulted in an empty key"]
    /\ UNCHANGED <<bb84, b92, call>>

NextE91 == E91Protocol \/ E91Main

SpecE91 == InitE91 /\ [][NextE91]_vars

(***************************************************************************)
(* Direct calls of the library functions, on arguments the prompts of the  *)
(* scripts would not let through: lists of different lengths, and a basis  *)
(* selector (2) outside {0, 1}.                                            *)
(***************************************************************************)
BasisValues == {0, 1, 2}

BasisFunctions == {"encode_b92_with_alice_basis", "measure_b92",
                   "Sam_transmission_multi_qubit",
                   "Ron_measurement_multi_qubit_with_noise"}

ReconCall(Sam_bases, Ron_bases, Sam_bits, Ron_results) ==
    [pc |-> "ready", fn |-> "basis_reconciliation",
     Sam_bases |-> Sam_bases, Ron_bases |-> Ron_bases,
     Sam_bits |-> Sam_bits, Ron_results |-> Ron_results,
     raised |-> NoException, shared_key_Sam |-> <<>>, shared_key_Ron |-> <<>>]

BasisCall(fn, bits, bases) ==
    [pc |-> "ready", fn |-> fn, bits |-> bits, bases |-> bases,
     raised |-> NoException, circuit |-> <<>>, channel_runs |-> 0,
     results |-> <<>>]

InitCall ==
    /\ \/ \E n \in 0..MaxLen :
            \E sa \in [1..n -> Bit], ra \in [1..n -> Bit] :
               \E sb \in [1..n -> Bit], rr \in [1..n -> Bit] :
                  call = ReconCall(sa, ra, sb, rr)
       \/ \E sa \in SeqsOf(Bit, 0, MaxMis), ra \in SeqsOf(Bit, 0, MaxMis) :
            \E sb \in SeqsOf(Bit, 0, MaxMis), rr \in SeqsOf(Bit, 0, MaxMis) :
               /\ {Len(ra), Len(sb), Len(rr)} # {Len(sa)}
               /\ call = ReconCall(sa, ra, sb, rr)
       \/ \E n \in 1..MaxN :
            \E bases \in [1..n -> BasisValues] :
               \/ \E bits \in [1..n -> Char] :
                     call = BasisCall("encode_b92_with_alice_basis", bits, bases)
               \/ call = BasisCall("measure_b92", <<>>, bases)
               \/ \E bits \in [1..n -> Bit] :
                     call = BasisCall("Sam_transmission_multi_qubit", bits, bases)
               \/ call = BasisCall("Ron_measurement_multi_qubit_with_noise",
                                   <<>>, bases)
    /\ bb84 = Off /\ b92 = Off /\ e91 = Off

CallReconcile ==
    /\ call.pc = "ready" /\ call.fn = "basis_reconciliation"
    /\ LET r == basis_reconciliation(call.Sam_bases, call.Ron_bases,
                                     call.Sam_bits, call.Ron_results)
       IN  call' = [call EXCEPT !.pc = "returned",
                                !.raised = r.raised,
                                !.shared_key_Sam = r.shared_key_Sam,
                                !.shared_key_Ron = r.shared_key_Ron]
    /\ UNCHANGED <<bb84, b92, e91>>

CallEncode ==
    /\ call.pc = "ready" /\ call.fn = "encode_b92_with_alice_basis"
    /\ LET e == encode_b92_with_alice_basis(call.bits, call.bases)
       IN  call' = [call EXCEPT
                      !.pc = "returned",
                      !.raised = e.raised,
                      !.circuit = IF e.raised = NoException THEN e.qc ELSE <<>>]
    /\ UNCHANGED <<bb84, b92, e91>>

\* measure_b92 on a circuit of untouched qubits.
CallMeasure ==
    /\ call.pc = "ready" /\ call.fn = "measure_b92"
    /\ LET n == Len(call.bases)
           m == MeasCircuit(n, call.bases)
       IN  IF m.raised # NoException
           THEN call' = [call EXCEPT !.pc = "returned", !.raised = m.raised]
           ELSE LET combined_circuit == Compose([q \in 1..n |-> <<>>], m.meas)
                IN  \E outcome \in ShotOutcomes(combined_circuit) :
                       call' = [call EXCEPT !.pc = "returned",
                                            !.circuit = combined_circuit,
                                            !.channel_runs = 1,
                                            !.results = BitString(outcome)]
    /\ UNCHANGED <<bb84, b92, e91>>

CallSam ==
    /\ call.pc = "ready" /\ call.fn = "Sam_transmission_multi_qubit"
    /\ call' = [call EXCEPT
                  !.pc = "returned",
                  !.circuit = Sam_transmission_multi_qubit(call.bits, call.bases)]
    /\ UNCHANGED <<bb84, b92, e91>>

\* Ron_measurement_multi_qubit_with_noise on a circuit of untouched qubits,
\* with noise_probability 0.
CallRon ==
    /\ call.pc = "ready" /\ call.fn = "Ron_measurement_multi_qubit_with_noise"
    /\ LET n == Len(call.bases)
           qc == RonCircuit([q \in 1..n |-> <<>>], call.bases)
       IN  \E outcome \in ShotOutcomes(qc) :
              call' = [call EXCEPT
                         !.pc = "returned",
                         !.circuit = qc,
                         !.channel_runs = 1,
                         !.results = ApplyNoise(MeasuredBits(BitString(outcome)),
                                                [q \in 1..n |-> 50], 0)]
    /\ UNCHANGED <<bb84, b92, e91>>

NextCall == CallReconcile \/ CallEncode \/ CallMeasure \/ CallSam \/ CallRon

SpecCall == InitCall /\ [][NextCall]_vars

(***************************************************************************)
(* The properties checked.                                                 *)
(***************************************************************************)
\* The j-th smallest element of a finite set of integers.
Nth(S, j) == CHOOSE i \in S : Cardinality({m \in S : m < i}) = j - 1

Min(S) == CHOOSE i \in S : \A m \in S : i <= m

\* ---- BB84 ----

\* C1: BB84 with noise probability 0: after transmission, measurement and
\* reconciliation the sifted key of the sender and the sifted key of the
\* receiver are identical, and the script reports that they match.
C1_KeysAgree ==
    (bb84.pc \in {"reconciled", "done"} /\ bb84.noise_level = 0)
        => /\ bb84.shared_key_Sam = bb84.shared_key_Ron
           /\ bb84.pc = "done" => bb84.message = "Shared keys match!"

\* A finished noiseless run of at least two qubits with a non-empty key, a
\* position of differing bases where Ron measured the other bit, and an
\* outcome string that reads differently backwards.
C1_Witness ==
    /\ bb84.pc = "done" /\ bb84.noise_level = 0
    /\ Len(bb84.Sam_bits) >= 2
    /\ bb84.shared_key_Sam # <<>>
    /\ bb84.measured_str # Reverse(bb84.measured_str)
    /\ \E i \in 1..Len(bb84.Sam_bits) :
          /\ bb84.Sam_bases[i] # bb84.Ron_bases[i]
          /\ bb84.Ron_measured_results[i] # bb84.Sam_bits[i]
    /\ bb84.message = "Shared keys match!"

\* ---- basis_reconciliation ----

AlignedRecon ==
    /\ call.pc = "returned" /\ call.fn = "basis_reconciliation"
    /\ {Len(call.Ron_bases), Len(call.Sam_bits), Len(call.Ron_results)}
           = {Len(call.Sam_bases)}

C3_Sifted ==
    AlignedRecon =>
        LET M == {i \in 1..Len(call.Sam_bases) :
                     call.Sam_bases[i] = call.Ron_bases[i]}
        IN  /\ call.raised = NoException
            /\ Len(call.shared_key_Sam) = Cardinality(M)
            /\ Len(call.shared_key_Ron) = Cardinality(M)
            /\ \A j \in 1..Cardinality(M) :
                  /\ call.shared_key_Sam[j] = call.Sam_bits[Nth(M, j)]
                  /\ call.shared_key_Ron[j] = call.Ron_results[Nth(M, j)]

C3_ArgsKept ==
    (call.pc = "ready" /\ call.fn = "basis_reconciliation")
        => /\ call'.Sam_bases = call.Sam_bases
           /\ call'.Ron_bases = call.Ron_bases
           /\ call'.Sam_bits = call.Sam_bits
           /\ call'.Ron_results = call.Ron_results

\* C3: on four lists of one length basis_reconciliation returns, in index
\* order, exactly the sender values and the receiver values at the positions
\* whose bases are equal (both results as long as the number of such
\* positions), and the call leaves its four arguments as they were.
C3_Reconciliation == []C3_Sifted /\ [][C3_ArgsKept]_vars

\* The scenario of the specification: bases [0,1,0,1] against [0,0,0,1] keep
\* the indices 0, 2 and 3.
C3_Witness ==
    /\ call.pc = "returned" /\ call.fn = "basis_reconciliation"
    /\ call.Sam_bases = <<0, 1, 0, 1>> /\ call.Ron_bases = <<0, 0, 0, 1>>
    /\ call.Sam_bits = <<1, 0, 1, 1>> /\ call.Ron_results = <<1, 1, 1, 1>>
    /\ call.shared_key_Sam = <<1, 1, 1>> /\ call.shared_key_Ron = <<1, 1, 1>>

\* C4: whenever the four lists do not all have one length,
\* basis_reconciliation fails with an error and returns no sifted keys.  (The
\* type of the error is left open here: any exception counts as the failure.)
C4_LengthMismatch ==
    (/\ call.pc = "returned" /\ call.fn = "basis_reconciliation"
     /\ {Len(call.Ron_bases), Len(call.Sam_bits), Len(call.Ron_results)}
            # {Len(call.Sam_bases)})
        => /\ call.raised # NoException
           /\ call.shared_key_Sam = <<>> /\ call.shared_key_Ron = <<>>

\* ---- invalid basis selectors ----

\* C9: a basis outside {0, 1} given to an encode/transmission or measurement
\* function of B92 or BB84 raises an error before any channel interaction.
C9_InvalidBasis ==
    (/\ call.pc = "returned" /\ call.fn \in BasisFunctions
     /\ \E i \in 1..Len(call.bases) : call.bases[i] \notin {0, 1})
        => /\ call.raised # NoException
           /\ call.channel_runs = 0

\* ---- B92 ----

\* The pairing rule: bit '0' with basis 0, bit '1' with basis 1.
Pairing(bit, basis) == (bit = "0" /\ basis = 0) \/ (bit = "1" /\ basis = 1)

Violations == {i \in 1..Len(b92.alice_bits) :
                  ~Pairing(b92.alice_bits[i], b92.alice_bases[i])}

\* The position an exception names: its messages carry none.
ErrorIndex(e) == IF "index" \in DOMAIN e THEN e.index ELSE -1

\* C5: encoding succeeds when every position satisfies the pairing rule;
\* otherwise it fails at the first violating position with an error that
\* identifies the index of that position, and the run ends with empty keys
\* without measure_b92 being called.
C5_Encode ==
    (b92.pc \notin {"off", "input"})
        => IF Violations = {}
           THEN b92.raised = NoException
           ELSE /\ b92.raised.type = "ValueError"
                /\ b92.raise_at = Min(Violations) - 1
                /\ ErrorIndex(b92.raised) = Min(Violations) - 1
                /\ b92.pc \in {"returned", "done"}
                /\ b92.final_key_alice = <<>> /\ b92.final_key_bob = <<>>
                /\ b92.measure_calls = 0

Sifted == b92.pc \in {"returned", "done"} /\ b92.raised = NoException

\* Position i (from 1) shows the first / the second conclusive pattern.
Pattern0(i) == /\ b92.alice_bases[i] = 0 /\ b92.bob_measurement_bases[i] = 1
               /\ b92.bob_measurements[i] = "1"
Pattern1(i) == /\ b92.alice_bases[i] = 1 /\ b92.bob_measurement_bases[i] = 0
               /\ b92.bob_measurements[i] = "1"

\* C6: an index is conclusive exactly when its position shows one of the two
\* patterns (sent basis-0 state, receiver basis 1, raw '1': key bit '0'; sent
\* basis-1 state, receiver basis 0, raw '1': key bit '1'); the conclusive
\* indices increase strictly, the sender key is the sender's bits at those
\* indices, both keys are as long as the index list, and no conclusive event
\* gives two empty keys and no error.
C6_Sifting ==
    (b92.pc \in {"returned", "done"} /\ Violations = {}) =>
        LET idx == b92.bob_conclusive_indices
        IN  /\ b92.raised = NoException
            /\ \A i \in 1..Len(b92.alice_bits) :
                  (\E j \in 1..Len(idx) : idx[j] = i - 1)
                      <=> (Pattern0(i) \/ Pattern1(i))
            /\ \A j \in 1..Len(idx) :
                  /\ b92.final_key_bob[j] = IF Pattern0(idx[j] + 1) THEN "0" ELSE "1"
                  /\ b92.final_key_alice[j] = b92.alice_bits[idx[j] + 1]
                  /\ j > 1 => idx[j - 1] < idx[j]
            /\ Len(b92.final_key_alice) = Len(idx)
            /\ Len(b92.final_key_bob) = Len(idx)
            /\ b92.bob_received_bits = b92.final_key_bob

\* A sifted run that keeps two positions, one of each pattern, and discards
\* another.
C6_Witness ==
    /\ Sifted
    /\ Len(b92.bob_conclusive_indices) >= 2
    /\ Len(b92.bob_conclusive_indices) < Len(b92.alice_bits)
    /\ b92.final_key_bob[1] # b92.final_key_bob[2]

\* C7: in the B92 run and in the BB84 run the receiver outcome used at
\* position i is the outcome measured on the carrier prepared from sender
\* position i and measured in receiver basis i (the channel returns its
\* outcome string in reversed qubit order).
C7_Alignment ==
    /\ (/\ b92.pc \in {"measured", "returned", "done"}
        /\ b92.raised = NoException /\ b92.chan = "ideal")
           => \A i \in 1..Len(b92.alice_bits) :
                 b92.bob_measurements[i] = b92.qubit_outcome[i]
    /\ (bb84.pc \in {"measured", "reconciled", "done"} /\ bb84.noise_level = 0)
           => \A i \in 1..Len(bb84.Sam_bits) :
                 bb84.Ron_measured_results[i] = CharToInt(bb84.qubit_outcome[i])

\* C10: in every run whose encoding succeeds, whatever string the channel
\* returns, the two final keys are equal, and the script never prints
\* "Potential errors".
C10_KeyAgreement ==
    Sifted
        => /\ b92.final_key_alice = b92.final_key_bob
           /\ b92.pc = "done"
                  => b92.message \in {"Key exchange successful",
                                      "Key exchange failed"}

\* A finished run over a disturbed channel whose raw string no ideal run can
\* give (a '1' where the bases of both sides agree), with a key of two bits.
C10_Witness ==
    /\ Sifted /\ b92.pc = "done" /\ b92.chan = "disturbed"
    /\ \E i \in 1..Len(b92.alice_bits) :
          /\ b92.alice_bases[i] = b92.bob_measurement_bases[i]
          /\ b92.qubit_outcome[i] = "1"
    /\ Len(b92.final_key_alice) >= 2
    /\ b92.message = "Key exchange successful"

\* ---- E91 ----

\* The samples whose two basis indices differ, and their products.
Included == {i \in 1..Len(e91.bell_test_data) :
                e91.bell_test_data[i][1][1] # e91.bell_test_data[i][2][1]}

Product(i) == IF e91.bell_test_data[i][1][2] = e91.bell_test_data[i][2][2]
              THEN 1 ELSE -1

\* The sum of the products (each is 1 or -1) over a set of samples.
SumProducts(S) ==
    Cardinality({i \in S : Product(i) = 1}) - Cardinality({i \in S : Product(i) = -1})

\* C2: when every included sample is anti-correlated (and there is one), the
\* absolute statistic exceeds the classical bound 2.0 and the protocol goes
\* on to key generation.
C2_AntiCorrelated ==
    (/\ e91.pc \in {"returned", "done"}
     /\ Included # {}
     /\ \A i \in Included : Product(i) = -1)
        => e91.branch = "key generation"

\* C8: the statistic is built only from the samples whose basis indices
\* differ (mean of their products, times sqrt(2)) and is 0 when there is
\* none; the protocol returns two identical keys of length
\* floor(sample-count / 2) exactly when the absolute statistic is strictly
\* greater than 2.0, and two empty keys otherwise.
C8_Estimator ==
    e91.pc \in {"returned", "done"} =>
        LET sum == SumProducts(Included)
            cnt == Cardinality(Included)
            exceeds == cnt > 0 /\ 2 * sum * sum > 4 * cnt * cnt
        IN  /\ e91.bell_statistic = IF cnt = 0 THEN [num |-> 0, den |-> 1]
                                    ELSE [num |-> sum, den |-> cnt]
            /\ e91.branch = IF exceeds THEN "key generation" ELSE "discard"
            /\ exceeds => /\ e91.alice_key = e91.bob_key
                          /\ Len(e91.alice_key) = Len(e91.bell_test_data) \div 2
            /\ ~exceeds => e91.alice_key = <<>> /\ e91.bob_key = <<>>

\* A finished run with an included and an excluded sample whose statistic
\* is at its largest magnitude, sqrt(2), and whose keys are empty.
C8_Witness ==
    /\ e91.pc = "done"
    /\ Included # {} /\ Cardinality(Included) < Len(e91.bell_test_data)
    /\ e91.bell_statistic.num = - e91.bell_statistic.den
    /\ e91.branch = "discard" /\ e91.alice_key = <<>> /\ e91.bob_key = <<>>

=============================================================================
